---- MODULE Spec2Model ----
(***************************************************************************)
(* The debounce controller of src/javascript/debounce/debounce.js together *)
(* with the host timer facility (setTimeout / clearTimeout) it relies on.  *)
(*                                                                         *)
(* One debounce instance is modelled: the three closure variables          *)
(* timeoutId, lastArgs, lastThis, the set of timers the host currently     *)
(* has scheduled, a clock, and a history of wrapper invocations and of     *)
(* evaluations of func.apply(lastThis, lastArgs).                          *)
(***************************************************************************)
EXTENDS Integers, Sequences, FiniteSets

\* ---------------------------------------------------------------- bounds
MaxCalls == 3     \* wrapper invocations in one behaviour
MaxFlushes == 1   \* flush() calls that reach func.apply in one behaviour
MaxTime == 2      \* the clock stops here
MaxWait == 1      \* largest delay passed to debounce()

\* ---------------------------------------------------------------- values
Null == <<"null", 0>>          \* JavaScript null, for lastArgs / lastThis
NoTimer == 0                   \* JavaScript null, for timeoutId (handles are > 0)
\* The wrapper never inspects the argument list or the receiver it is called
\* with, so those of the k-th invocation are told apart by k alone.
ArgsOf(k) == <<"args", k>>
ThisOf(k) == <<"this", k>>
Waits == {0 - 1, 0, MaxWait}   \* the wait argument: negative, zero, positive
\* What the caller passes as func: not a function, a function that always
\* returns, or a function that may raise.
FuncKinds == {"notCallable", "reliable", "faulty"}

VARIABLES
  func,        \* what was passed as func, one of FuncKinds
  wait,        \* the wait argument
  immediate,   \* the immediate argument
  wrapper,     \* "none" before debounce() ran, "returned" once it returned debounced
  timeoutId,   \* closure variable, line 7
  lastArgs,    \* closure variable, line 8
  lastThis,    \* closure variable, line 9
  timers,      \* host: the scheduled timers, records [id, due]
  nextId,      \* host: the handle the next setTimeout returns
  now,         \* host: the clock
  calls,       \* history: the wrapper invocations
  calledAt,    \* history: the time of the most recent wrapper invocation
  fate,        \* history: what became of the timer of each invocation
  execs,       \* history: the evaluations of func.apply(lastThis, lastArgs)
  \* ---- src/react/useDebounce/useDebounce.js, one instance of the hook
  hookPhase,   \* "new" before the first render, then "mounted", then "unmounted"
  value,       \* the value argument of the latest render
  delay,       \* the delay argument of the latest render
  deps,        \* [value, delay] of the last effect run, <<>> before the first
  debouncedValue, \* the useState cell, line 10
  timeoutRef,  \* timeoutRef.current, line 11 (NoTimer is null)
  hookTimers,  \* host: the timers the hook has scheduled, [id, due, value]
  hookNextId,  \* host: the handle the next setTimeout returns
  hookNow,     \* host: the clock
  syncEffects, \* whether React runs an effect inside the commit or after it
  renders,     \* history: the number of renders
  hookFate,    \* history: what became of each timer of the hook, by handle
  lateSets,    \* history: calls of setDebouncedValue after the unmount
  \* ---- src/core-js/filter/02.filter.js, one call of myFilter
  filterThis,   \* the receiver, an array that may have holes
  callbackFn,   \* what was passed as callbackFn
  filterPc,     \* "start", "loop", "returned" or "threw"
  filterI,      \* the loop index i, line 22
  filterResult, \* the array result, line 19
  filterOrig,   \* history: the receiver as it was at the call
  filterVisits, \* history: the invocations of callbackFn
  pushes,       \* history: the elements callbackFn has appended to the receiver
  \* ---- myAt, src/javascript/filter/understanding-filter.md, one call
  atThis,       \* the receiver, an array that may have holes
  atIndex,      \* the argument index, in halves (3 is 1.5, 0 - 2 is -1)
  atPc,         \* "start" or "returned"
  atResult,     \* the value returned
  atAltPc,      \* the alternate version of myAt: "start" or "returned"
  atAltResult,  \* the value the alternate version returned
  \* ---- src/javascript/concat/concat.js, one call of myConcat
  concatThis,   \* the receiver, an array that may have holes
  concatArgs,   \* the arguments, a sequence of values
  concatPc,     \* "start" or "returned"
  concatResult, \* the array returned
  \* ---- src/javascript/call/call.js and src/unnamed/part_000, one call of
  \* f.myCall(thisArg, ...argArray) or f.myApply(thisArg, argsArr)
  method,       \* "myCall" or "myApply"
  callee,       \* the receiver f: what it is and what its body does
  thisArg,      \* the first argument
  argsArr,      \* myApply: the second argument; myCall: the rest arguments
  callPc,       \* "start", "returned" or "threw"
  callResult,   \* the value returned
  targetKeys,   \* the own property keys of the object f is installed on
  invocations   \* history: the invocations of f, with their this and arguments

debounceVars == <<func, wait, immediate, wrapper, timeoutId, lastArgs, lastThis,
                  timers, nextId, now, calls, calledAt, fate, execs>>

hookVars == <<hookPhase, value, delay, deps, debouncedValue, timeoutRef,
              hookTimers, hookNextId, hookNow, syncEffects, renders, hookFate,
              lateSets>>

filterVars == <<filterThis, callbackFn, filterPc, filterI, filterResult,
                filterOrig, filterVisits, pushes>>

atVars == <<atThis, atIndex, atPc, atResult, atAltPc, atAltResult>>

concatVars == <<concatThis, concatArgs, concatPc, concatResult>>

callVars == <<method, callee, thisArg, argsArr, callPc, callResult, targetKeys,
              invocations>>

vars == <<debounceVars, hookVars, filterVars, atVars, concatVars, callVars>>

config == <<func, wait, immediate>>

\* What a step of the debounce controller leaves alone.
notDebounce == <<hookVars, filterVars, atVars, concatVars, callVars>>

\* What a step of the hook leaves alone.
notHook == <<debounceVars, filterVars, atVars, concatVars, callVars>>

\* What a step of myFilter leaves alone.
notFilter == <<debounceVars, hookVars, atVars, concatVars, callVars>>

\* What a step of myAt leaves alone.
notAt == <<debounceVars, hookVars, filterVars, concatVars, callVars>>

\* What a step of myConcat leaves alone.
notConcat == <<debounceVars, hookVars, filterVars, atVars, callVars>>

\* What a step of myCall or myApply leaves alone.
notCall == <<debounceVars, hookVars, filterVars, atVars, concatVars>>

\* ------------------------------------------------------ host timer facility
\* setTimeout clamps a negative delay to 0.
Delay(w) == IF w < 0 THEN 0 ELSE w

\* clearTimeout(id): the timer with that handle, if scheduled, is removed;
\* null or a handle that is no longer scheduled changes nothing.
ClearTimeout(ts, id) == {t \in ts : t.id # id}

\* setTimeout(cb, w) at time t, returning handle id.
SetTimeout(ts, id, w, t) == ts \cup {[id |-> id, due |-> t + Delay(w)]}

Scheduled(ts, id) == \E t \in ts : t.id = id

\* The history of timer handles (handle k belongs to invocation k). An
\* operation that arrives while timers are scheduled marks them with what it
\* was: "reset" by a wrapper invocation, "cancelled" by cancel(), "flushed" by
\* flush(). A timer that fires is "fired", or a "zombie" if it had been marked.
Mark(f, ts, why) ==
  [k \in DOMAIN f |-> IF Scheduled(ts, k) /\ f[k] = "pending" THEN why ELSE f[k]]

Fired(f, id) ==
  [f EXCEPT ![id] = IF @ = "pending" THEN "fired" ELSE "zombie"]

\* ------------------------------------------------------ the target
\* func.apply(lastThis, lastArgs): a non-callable func raises a TypeError,
\* a callable one returns or, when faulty, may raise.
Outcomes ==
  IF func = "notCallable" THEN {"throw"}
  ELSE IF func = "faulty" THEN {"ok", "throw"} ELSE {"ok"}

\* One evaluation of func.apply(t, a), as the history records it.
Exec(a, t, via, n, timer, o) ==
  [args |-> a, this |-> t, via |-> via, waited |-> now - calledAt,
   ncalls |-> n, timer |-> timer, threw |-> (o = "throw")]

\* ------------------------------------------------------ the initial states
\* The hook before any component uses it.
HookIdle ==
  /\ hookPhase = "new"
  /\ value = "none"
  /\ delay = 0
  /\ deps = <<>>
  /\ debouncedValue = "none"
  /\ timeoutRef = NoTimer
  /\ hookTimers = {}
  /\ hookNextId = 1
  /\ hookNow = 0
  /\ renders = 0
  /\ hookFate = <<>>
  /\ lateSets = 0

\* The debounce controller before debounce() is called.
DebounceIdle ==
  /\ wrapper = "none"
  /\ timeoutId = NoTimer
  /\ lastArgs = Null
  /\ lastThis = Null
  /\ timers = {}
  /\ nextId = 1
  /\ now = 0
  /\ calls = <<>>
  /\ calledAt = 0
  /\ fate = <<>>
  /\ execs = <<>>

\* myFilter before it is called, on an empty array.
FilterIdle ==
  /\ filterThis = <<>>
  /\ callbackFn = "pure"
  /\ filterPc = "start"
  /\ filterI = 0
  /\ filterResult = <<>>
  /\ filterOrig = <<>>
  /\ filterVisits = <<>>
  /\ pushes = 0

\* myAt before it is called, on an empty array.
AtIdle ==
  /\ atThis = <<>>
  /\ atIndex = 0
  /\ atPc = "start"
  /\ atResult = "none"
  /\ atAltPc = "start"
  /\ atAltResult = "none"

\* myConcat before it is called, on an empty array with no arguments.
ConcatIdle ==
  /\ concatThis = <<>>
  /\ concatArgs = <<>>
  /\ concatPc = "start"
  /\ concatResult = <<>>

\* myCall before it is called.
CallIdle ==
  /\ method = "myCall"
  /\ callee = [type |-> "function", body |-> "returns", value |-> "undefined"]
  /\ thisArg = [type |-> "undefined", extensible |-> FALSE]
  /\ argsArr = [type |-> "array", items |-> <<>>]
  /\ callPc = "start"
  /\ callResult = "none"
  /\ targetKeys = {"name"}
  /\ invocations = <<>>

\* The debounce controller, the hook and myFilter, unused.
OthersIdle ==
  /\ func = "reliable"
  /\ wait = 0
  /\ immediate = FALSE
  /\ DebounceIdle
  /\ HookIdle
  /\ syncEffects = TRUE
  /\ FilterIdle

Init ==
  /\ func \in FuncKinds
  /\ wait \in Waits
  /\ immediate \in BOOLEAN
  /\ DebounceIdle
  /\ HookIdle
  /\ syncEffects = TRUE
  /\ FilterIdle
  /\ AtIdle
  /\ ConcatIdle
  /\ CallIdle

\* ------------------------------------------------------ debounce(func, wait, immediate)
\* Lines 6-50: the closure variables are initialised and debounced is returned;
\* neither func nor wait is inspected.
ConstructResult(f, w) == "returned"

debounce ==
  /\ wrapper = "none"
  /\ wrapper' = ConstructResult(func, wait)
  /\ timeoutId' = NoTimer
  /\ lastArgs' = Null
  /\ lastThis' = Null
  /\ UNCHANGED <<notDebounce, config, timers, nextId, now, calls, calledAt, fate, execs>>

\* ------------------------------------------------------ debounced(...args)
\* Line 15: const callNow = immediate && !timeoutId
CallNow(imm, tid) == imm /\ tid = NoTimer

\* A wrapper that leaves the previous timer scheduled.
ReleasePrevious_Kept(ts, tid) == ts

\* Line 17: clearTimeout(timeoutId), before the new timer is created.
ReleasePrevious(ts, tid) == ClearTimeout(ts, tid)

\* Lines 11-32: the next invocation of the wrapper.
debounced ==
  /\ wrapper = "returned"
  /\ Len(calls) < MaxCalls
  /\ \E o \in Outcomes :
       LET callNow == CallNow(immediate, timeoutId)
           id == nextId
           n == Len(calls) + 1
           a == ArgsOf(n)
           t == ThisOf(n)
       IN  /\ timers' = SetTimeout(ReleasePrevious(timers, timeoutId), id, wait, now)
           /\ nextId' = nextId + 1
           /\ timeoutId' = id
           /\ calls' = Append(calls, [args |-> a, this |-> t, id |-> id,
                                      pending |-> (timers # {})])
           /\ calledAt' = now
           /\ fate' = Append(Mark(fate, timers, "reset"), "pending")
           /\ IF callNow
                THEN /\ execs' = Append(execs, [Exec(a, t, "leading", n, id, o)
                                                   EXCEPT !.waited = 0])
                     /\ lastArgs' = IF o = "ok" THEN Null ELSE a
                     /\ lastThis' = IF o = "ok" THEN Null ELSE t
                ELSE /\ execs' = execs
                     /\ lastArgs' = a
                     /\ lastThis' = t
  /\ UNCHANGED <<notDebounce, config, wrapper, now>>

\* ------------------------------------------------------ the timer callback
\* Lines 19-26, run by the host for a scheduled timer whose delay has elapsed.
\* Line 22: the callback executes the target only when immediate is false.
FiresTrailing_Never(imm) == FALSE

FiresTrailing(imm) == ~imm

timerCallback(id) ==
  /\ wrapper = "returned"
  /\ \E tm \in timers : tm.id = id /\ tm.due <= now
  /\ timers' = ClearTimeout(timers, id)
  /\ fate' = Fired(fate, id)
  /\ timeoutId' = NoTimer
  /\ \E o \in Outcomes :
       IF FiresTrailing(immediate)
       THEN /\ execs' = Append(execs, Exec(lastArgs, lastThis, "trailing", Len(calls), id, o))
            /\ lastArgs' = IF o = "ok" THEN Null ELSE lastArgs
            /\ lastThis' = IF o = "ok" THEN Null ELSE lastThis
       ELSE /\ UNCHANGED <<execs, lastArgs, lastThis>>
  /\ UNCHANGED <<notDebounce, config, wrapper, nextId, now, calls, calledAt>>

\* ------------------------------------------------------ debounced.cancel()
\* A cancel() that resets the closure variables but leaves the timer scheduled.
CancelTimer_Kept(ts, tid) == ts

\* Line 35: clearTimeout(timeoutId)
CancelTimer(ts, tid) == ClearTimeout(ts, tid)

\* Lines 34-38.
cancel ==
  /\ wrapper = "returned"
  /\ timers' = CancelTimer(timers, timeoutId)
  /\ fate' = Mark(fate, timers, "cancelled")
  /\ timeoutId' = NoTimer
  /\ lastArgs' = Null
  /\ lastThis' = Null
  /\ UNCHANGED <<notDebounce, config, wrapper, nextId, now, calls, calledAt, execs>>

\* ------------------------------------------------------ debounced.flush()
\* Line 41: if (timeoutId)
FlushGuard(tid) == tid # NoTimer

\* A flush() that executes the target but leaves the timer scheduled.
FlushTimer_Kept(ts, tid) == ts

\* Line 42: clearTimeout(timeoutId)
FlushTimer(ts, tid) == ClearTimeout(ts, tid)

\* Lines 44-45, reached only when line 43 returned: the closure variables
\* <<timeoutId, lastArgs, lastThis>> after flush().
AfterFlush(o, tid, a, t) ==
  IF o = "ok" THEN <<NoTimer, Null, Null>> ELSE <<tid, a, t>>

Flushes == Cardinality({i \in 1 .. Len(execs) : execs[i].via = "flush"})

\* Lines 40-47. A raise at line 43 leaves lines 44-45 unexecuted.
flush ==
  /\ wrapper = "returned"
  /\ IF FlushGuard(timeoutId)
     THEN /\ Flushes < MaxFlushes
          /\ timers' = FlushTimer(timers, timeoutId)
          /\ fate' = Mark(fate, timers, "flushed")
          /\ \E o \in Outcomes :
               /\ execs' = Append(execs, Exec(lastArgs, lastThis, "flush", Len(calls), timeoutId, o))
               /\ timeoutId' = AfterFlush(o, timeoutId, lastArgs, lastThis)[1]
               /\ lastArgs' = AfterFlush(o, timeoutId, lastArgs, lastThis)[2]
               /\ lastThis' = AfterFlush(o, timeoutId, lastArgs, lastThis)[3]
     ELSE /\ fate' = Mark(fate, timers, "flushed")
          /\ UNCHANGED <<timers, execs, timeoutId, lastArgs, lastThis>>
  /\ UNCHANGED <<notDebounce, config, wrapper, nextId, now, calls, calledAt>>

\* ------------------------------------------------------ the clock
\* Time passes; the host may run a due timer late, never early.
tick ==
  /\ now < MaxTime
  /\ now' = now + 1
  /\ UNCHANGED <<notDebounce, config, wrapper, timeoutId, lastArgs, lastThis, timers, nextId,
                 calls, calledAt, fate, execs>>

Next ==
  \/ debounce
  \/ debounced
  \/ \E id \in 1 .. MaxCalls : timerCallback(id)
  \/ cancel
  \/ flush
  \/ tick

Spec == Init /\ [][Next]_vars

\* The same controller around a callable target that never raises.
InitOk == Init /\ func = "reliable"

SpecOk == InitOk /\ [][Next]_vars

\* ------------------------------------------------------ bursts
\* A burst is a maximal run k0 .. k1 of wrapper invocations each of which,
\* after the first, arrived while a timer was still scheduled.
Burst(k0, k1) ==
  /\ k0 \in 1 .. Len(calls) /\ k1 \in k0 .. Len(calls)
  /\ ~calls[k0].pending
  /\ \A j \in (k0 + 1) .. k1 : calls[j].pending
  /\ k1 < Len(calls) => ~calls[k1 + 1].pending

\* No cancel() and no flush() arrived while a timer of the burst was scheduled.
Undisturbed(k0, k1) ==
  /\ \A j \in k0 .. (k1 - 1) : fate[j] = "reset"
  /\ fate[k1] \in {"pending", "fired"}

\* The executions of the target that happened while an invocation of the
\* burst was the most recent one.
ExecsOf(k0, k1) == {i \in 1 .. Len(execs) : execs[i].ncalls \in k0 .. k1}

Bursts == {b \in (1 .. Len(calls)) \X (1 .. Len(calls)) : Burst(b[1], b[2])}

\* ------------------------------------------------------ C1
\* C1: with immediate = false, a burst of wrapper invocations that no cancel()
\* or flush() disturbs executes the target not at all while the timer of its
\* last invocation is scheduled, and exactly once when that timer has fired:
\* from that timer's callback, after the full delay since the last invocation,
\* with the last invocation's arguments and receiver. No timer of an earlier
\* invocation of the burst ever fires.
TrailingCoalescing ==
  ~immediate =>
    /\ \A k \in 1 .. Len(fate) : fate[k] # "zombie"
    /\ \A b \in Bursts :
         Undisturbed(b[1], b[2]) =>
           /\ fate[b[2]] = "pending" => ExecsOf(b[1], b[2]) = {}
           /\ fate[b[2]] = "fired" =>
                /\ Cardinality(ExecsOf(b[1], b[2])) = 1
                /\ \A i \in ExecsOf(b[1], b[2]) :
                     /\ execs[i].via = "trailing"
                     /\ execs[i].timer = calls[b[2]].id
                     /\ execs[i].ncalls = b[2]
                     /\ execs[i].args = calls[b[2]].args
                     /\ execs[i].this = calls[b[2]].this
                     /\ execs[i].waited >= Delay(wait)

\* Three invocations in one burst with a positive delay, the last timer fired.
TrailingCoalescingWitness ==
  /\ ~immediate /\ wait = MaxWait /\ MaxWait > 0
  /\ Len(calls) = 3 /\ Burst(1, 3) /\ Undisturbed(1, 3)
  /\ fate[3] = "fired"
  /\ Len(execs) = 1 /\ execs[1].args = ArgsOf(3)

\* ------------------------------------------------------ C8
\* C8: at most one timer of the instance is scheduled with the host at any
\* time, and a scheduled timer is the one the most recent invocation created.
SingleTimer ==
  /\ Cardinality(timers) <= 1
  /\ \A tm \in timers : tm.id = Len(calls)

\* A second invocation arrived while the first one's timer was scheduled.
SingleTimerWitness ==
  /\ Len(calls) >= 2 /\ calls[2].pending
  /\ Cardinality(timers) = 1

\* ------------------------------------------------------ C2
\* C2: with immediate = true, a burst of wrapper invocations that no cancel()
\* or flush() disturbs executes the target exactly once: inside the first
\* invocation of the burst, with that invocation's arguments and receiver.
LeadingSingleFire ==
  immediate =>
    \A b \in Bursts :
      Undisturbed(b[1], b[2]) =>
        /\ Cardinality(ExecsOf(b[1], b[2])) = 1
        /\ \A i \in ExecsOf(b[1], b[2]) :
             /\ execs[i].via = "leading"
             /\ execs[i].ncalls = b[1]
             /\ execs[i].args = calls[b[1]].args
             /\ execs[i].this = calls[b[1]].this

\* ------------------------------------------------------ C3
\* C3: every execution of the target, on whichever path, receives the argument
\* list and the receiver of the most recent wrapper invocation (never null).
ArgumentFidelity ==
  \A i \in 1 .. Len(execs) :
    /\ execs[i].ncalls \in 1 .. Len(calls)
    /\ execs[i].args = calls[execs[i].ncalls].args
    /\ execs[i].this = calls[execs[i].ncalls].this

\* ------------------------------------------------------ C4
\* cancel() arrived while the timer of the most recent invocation was scheduled,
\* and the wrapper has not been invoked since.
AfterCancel == Len(calls) > 0 /\ fate[Len(calls)] = "cancelled"

\* The controller as debounce() leaves it, with nothing scheduled.
Fresh ==
  /\ timeoutId = NoTimer /\ lastArgs = Null /\ lastThis = Null
  /\ timers = {}

\* The step is a wrapper invocation that does what the first invocation on a
\* fresh controller does: it starts a burst, schedules the one timer a full
\* delay ahead, and executes the target at once exactly when immediate is set.
LikeFirstInvocation ==
  LET n == Len(calls') IN
  /\ n = Len(calls) + 1
  /\ ~calls'[n].pending
  /\ timers' = {[id |-> calls'[n].id, due |-> now + Delay(wait)]}
  /\ timeoutId' = calls'[n].id
  /\ IF immediate
     THEN /\ Len(execs') = Len(execs) + 1
          /\ execs'[Len(execs')].via = "leading"
          /\ execs'[Len(execs')].args = ArgsOf(n)
          /\ execs'[Len(execs')].this = ThisOf(n)
     ELSE /\ execs' = execs
          /\ lastArgs' = ArgsOf(n)
          /\ lastThis' = ThisOf(n)

\* In trailing mode a burst that started right after a cancel() and whose last
\* timer fired executed the target once, after the full delay, with its own
\* last arguments.
BurstAfterCancel ==
  ~immediate =>
    \A b \in Bursts :
      (b[1] > 1 /\ fate[b[1] - 1] = "cancelled" /\ Undisturbed(b[1], b[2])
         /\ fate[b[2]] = "fired") =>
        /\ Cardinality(ExecsOf(b[1], b[2])) = 1
        /\ \A i \in ExecsOf(b[1], b[2]) :
             /\ execs[i].args = calls[b[2]].args
             /\ execs[i].this = calls[b[2]].this
             /\ execs[i].waited >= Delay(wait)

\* C4: after a cancel() that arrived while a timer was scheduled, the cancelled
\* timer never fires, nothing executes the target until the wrapper is invoked
\* again, the controller is as a freshly constructed one, and the next
\* invocation behaves as the first invocation on a fresh controller.
CancelSuppresses ==
  [][ /\ \A k \in 1 .. Len(fate') : fate'[k] # "zombie"
      /\ AfterCancel' => Fresh'
      /\ (AfterCancel /\ Len(calls') = Len(calls)) => execs' = execs
      /\ (AfterCancel /\ Len(calls') # Len(calls)) => LikeFirstInvocation
      /\ BurstAfterCancel' ]_vars

\* A cancelled first invocation, then a second one whose timer fired and
\* executed the target with the second invocation's arguments.
CancelSuppressesWitness ==
  /\ ~immediate /\ wait = MaxWait
  /\ Len(calls) = 2 /\ fate = <<"cancelled", "fired">>
  /\ Len(execs) = 1 /\ execs[1].args = ArgsOf(2) /\ ~execs[1].threw

\* ------------------------------------------------------ C5
\* C5: a flush() that arrives while a timer is scheduled executes the target
\* exactly once, inside flush(), with the current lastArgs and lastThis; the
\* timer is removed from the host and never fires; and when flush() returns,
\* timeoutId, lastArgs and lastThis are all null.
FlushForces ==
  [][ /\ \A k \in 1 .. Len(fate') : fate'[k] # "zombie"
      /\ (flush /\ timers # {}) =>
           /\ Len(execs') = Len(execs) + 1
           /\ execs'[Len(execs')].via = "flush"
           /\ execs'[Len(execs')].args = lastArgs
           /\ execs'[Len(execs')].this = lastThis
           /\ timers' = {}
           /\ ~execs'[Len(execs')].threw =>
                (timeoutId' = NoTimer /\ lastArgs' = Null /\ lastThis' = Null) ]_vars

\* A pending trailing call was flushed before its delay elapsed: the target ran
\* with its arguments, and the clock has since passed the scheduled expiry.
FlushForcesWitness ==
  /\ ~immediate /\ wait = MaxWait
  /\ Len(calls) = 1 /\ fate = <<"flushed">>
  /\ Len(execs) = 1 /\ execs[1].via = "flush" /\ ~execs[1].threw
  /\ execs[1].args = ArgsOf(1) /\ execs[1].waited < Delay(wait)
  /\ now >= calledAt + Delay(wait)
  /\ timeoutId = NoTimer /\ lastArgs = Null

\* ------------------------------------------------------ C6
\* C6: when no timer is scheduled, cancel() and flush() execute nothing,
\* schedule nothing and leave timeoutId, lastArgs and lastThis unchanged.
IdempotentCancelFlush ==
  [][ (timers = {} /\ (cancel \/ flush)) =>
        UNCHANGED <<timeoutId, lastArgs, lastThis, timers, execs>> ]_vars

\* ------------------------------------------------------ C7
\* C7: debounce() returns a wrapper only for a callable func and a
\* non-negative wait.
ConstructionValidation ==
  wrapper = "returned" => (func # "notCallable" /\ wait >= 0)

\* ------------------------------------------------------ C9
\* C9: timeoutId is non-null exactly when a timer of the instance is scheduled
\* with the host, and it is the handle of that timer.
TimerHandle ==
  /\ timeoutId # NoTimer <=> Scheduled(timers, timeoutId)
  /\ \A tm \in timers : tm.id = timeoutId

\* ------------------------------------------------------ C10
\* C10: lastArgs and lastThis are non-null exactly when a wrapper invocation
\* still awaits execution: never when no timer is scheduled, always while a
\* trailing-edge timer is scheduled.
PendingArguments ==
  /\ lastArgs # Null <=> lastThis # Null
  /\ lastArgs # Null => timers # {}
  /\ (~immediate /\ timers # {}) => lastArgs # Null

\* ------------------------------------------------------ C11
\* C11: when the target raises during a leading-edge fire, a trailing-edge
\* fire or a flush(), the controller is left as after a normal return:
\* lastArgs and lastThis null and, for flush() and the trailing fire,
\* timeoutId null.
ThrowingTargetCleared ==
  [][ (func = "faulty" /\ Len(execs') = Len(execs) + 1
         /\ execs'[Len(execs')].threw) =>
        /\ lastArgs' = Null
        /\ lastThis' = Null
        /\ execs'[Len(execs')].via \in {"flush", "trailing"} =>
             timeoutId' = NoTimer ]_vars


\* ====================================================================
\* src/react/useDebounce/useDebounce.js: one component instance that calls
\* useDebounce(value, delay) on every render. React runs the effect of a
\* render after the commit: inside it (syncEffects) or as a task of its own
\* that the host may order after a due timer, and always before the next
\* render or the unmount of the component.
\* ====================================================================
MaxRenders == 3

HookValues == {"a", "b"}
Delays == {0, MaxWait}

\* setTimeout(() => setDebouncedValue(value), delay), lines 18-20: the
\* callback closes over the value of the render that scheduled it.
HookSetTimeout(ts, id, v, d, t) ==
  ts \cup {[id |-> id, due |-> t + Delay(d), value |-> v, delay |-> d]}

RetirePrevious_Kept(ts, ref) == ts

\* Lines 14-16: if (timeoutRef.current) clearTimeout(timeoutRef.current).
RetirePrevious(ts, ref) == IF ref # NoTimer THEN ClearTimeout(ts, ref) ELSE ts

\* The effect body, lines 13-21, run for the render with arguments v and d.
RunEffect(v, d) ==
  /\ hookTimers' =
       HookSetTimeout(RetirePrevious(hookTimers, timeoutRef), hookNextId, v, d,
                      hookNow)
  /\ timeoutRef' = hookNextId
  /\ hookNextId' = hookNextId + 1
  /\ deps' = <<v, d>>
  /\ hookFate' =
       Append([k \in DOMAIN hookFate |->
                 IF k = timeoutRef /\ Scheduled(hookTimers, k)
                   THEN "cleared" ELSE hookFate[k]],
              "pending")

EffectPending == hookPhase = "mounted" /\ deps # <<value, delay>>

\* The first render: useState(value) and useRef(null), lines 10-11.
mount(v, d) ==
  /\ hookPhase = "new"
  /\ hookPhase' = "mounted"
  /\ value' = v
  /\ delay' = d
  /\ debouncedValue' = v
  /\ renders' = 1
  /\ IF syncEffects
       THEN RunEffect(v, d)
       ELSE UNCHANGED <<deps, timeoutRef, hookTimers, hookNextId,
                       hookFate>>
  /\ UNCHANGED <<notHook, hookNow, syncEffects, lateSets>>

\* A later render: the state cell keeps its value, line 10, and the effect
\* runs only if value or delay differ from the last run's, line 21.
rerender(v, d) ==
  /\ hookPhase = "mounted"
  /\ ~EffectPending
  /\ renders < MaxRenders
  /\ value' = v
  /\ delay' = d
  /\ renders' = renders + 1
  /\ IF syncEffects /\ <<v, d>> # deps
       THEN RunEffect(v, d)
       ELSE UNCHANGED <<deps, timeoutRef, hookTimers, hookNextId,
                       hookFate>>
  /\ UNCHANGED <<notHook, hookPhase, debouncedValue, hookNow, syncEffects,
                 lateSets>>

\* The effect of the latest render, run after its commit.
effect ==
  /\ EffectPending
  /\ RunEffect(value, delay)
  /\ UNCHANGED <<notHook, hookPhase, value, delay, debouncedValue, hookNow,
                 syncEffects, renders, lateSets>>

\* The component is removed. The effect returns no cleanup function, lines
\* 13-21, so nothing of the hook runs.
unmount ==
  /\ hookPhase = "mounted"
  /\ ~EffectPending
  /\ hookPhase' = "unmounted"
  /\ UNCHANGED <<notHook, value, delay, deps, debouncedValue, timeoutRef,
                 hookTimers, hookNextId, hookNow, syncEffects, renders,
                 hookFate, lateSets>>

\* The host runs a due timer: setDebouncedValue(value), line 19. React drops
\* a state update of an unmounted component. timeoutRef.current keeps the
\* handle.
timeoutCallback(id) ==
  /\ \E tm \in hookTimers :
       /\ tm.id = id
       /\ tm.due <= hookNow
       /\ hookTimers' = hookTimers \ {tm}
       /\ hookFate' = [hookFate EXCEPT ![id] = "fired"]
       /\ IF hookPhase = "mounted"
            THEN debouncedValue' = tm.value /\ UNCHANGED lateSets
            ELSE lateSets' = lateSets + 1 /\ UNCHANGED debouncedValue
  /\ UNCHANGED <<notHook, hookPhase, value, delay, deps, timeoutRef,
                 hookNextId, hookNow, syncEffects, renders>>

hookTick ==
  /\ hookNow < MaxTime
  /\ hookNow' = hookNow + 1
  /\ UNCHANGED <<notHook, hookPhase, value, delay, deps, debouncedValue,
                 timeoutRef, hookTimers, hookNextId, syncEffects, renders,
                 hookFate, lateSets>>

NextHook ==
  \/ \E v \in HookValues, d \in Delays : mount(v, d)
  \/ \E v \in HookValues, d \in Delays : rerender(v, d)
  \/ effect
  \/ unmount
  \/ \E id \in 1 .. MaxRenders : timeoutCallback(id)
  \/ hookTick

InitHook ==
  /\ func = "reliable"
  /\ wait = 0
  /\ immediate = FALSE
  /\ DebounceIdle
  /\ HookIdle
  /\ syncEffects \in BOOLEAN
  /\ FilterIdle
  /\ AtIdle
  /\ ConcatIdle
  /\ CallIdle

SpecHook == InitHook /\ [][NextHook]_vars


\* ------------------------------------------------------ C12
\* C12: the value useDebounce returns changes only when a timer of the hook
\* fires, and a timer fires only if it is the one the latest render's
\* arguments scheduled, value and delay being those it was scheduled with; so
\* the returned value never becomes a value the component has since replaced.
QuiescentOutput ==
  [][ /\ (hookPhase = "mounted" /\ debouncedValue' # debouncedValue) =>
           \E id \in 1 .. MaxRenders : timeoutCallback(id)
      /\ \A tm \in hookTimers :
           (hookPhase = "mounted" /\ timeoutCallback(tm.id)) =>
             /\ tm.value = value
             /\ tm.delay = delay ]_vars

\* ------------------------------------------------------ C13
\* C13: once the component is unmounted no timer of the hook is scheduled and
\* setDebouncedValue has not been called since the unmount.
UnmountCleanup ==
  hookPhase = "unmounted" => (hookTimers = {} /\ lateSets = 0)

\* ------------------------------------------------------ C14
\* C14: at most one timer of the hook is scheduled, and it is the one
\* timeoutRef.current holds: every effect run has cleared the timer of the
\* run before it.
SingleHookTimer ==
  /\ Cardinality(hookTimers) <= 1
  /\ \A tm \in hookTimers : tm.id = timeoutRef

\* An effect run has cleared a scheduled timer and scheduled the next one.
SingleHookTimerWitness ==
  /\ \E k \in DOMAIN hookFate : hookFate[k] = "cleared"
  /\ hookTimers # {}


\* ====================================================================
\* Arrays. A JavaScript array is a length and the indices it has; the model
\* writes it as a sequence in which Hole stands at every index the array
\* does not have. Index i of the array is position i + 1 of the sequence.
\* ====================================================================
MaxLen == 3
MaxPushes == 1

Hole == "hole"
Undefined == "undefined"
Elements == {"x", "y"}

SeqsUpTo(S, n) == UNION {[1 .. k -> S] : k \in 0 .. n}

\* The arrays of at most n indices, with or without holes.
Arrays(n) == SeqsUpTo(Elements \cup {Hole}, n)

Has_Always(arr, i) == i >= 0 /\ i < Len(arr)

\* i in arr
Has(arr, i) == i >= 0 /\ i < Len(arr) /\ arr[i + 1] # Hole

\* arr[i]: reading an index the array does not have gives undefined.
Get(arr, i) == IF Has(arr, i) THEN arr[i + 1] ELSE Undefined

\* The indices an array has, ascending.
PresentIndices(arr) ==
  SelectSeq([k \in 1 .. Len(arr) |-> k - 1], LAMBDA i : arr[i + 1] # Hole)

\* ====================================================================
\* src/core-js/filter/02.filter.js: one call arr.myFilter(callbackFn). The
\* callback is any function of (value, index, array): each invocation
\* returns a truthy or a falsy value, and a "pushing" callback may append
\* to the array it is given.
\* ====================================================================
CallbackKinds == {"notFunction", "pure", "pushing"}

IsFunction_Any(cb) == TRUE

\* typeof callbackFn === "function", line 15
IsFunction(cb) == cb # "notFunction"

\* Lines 14-19: the type check, then const result = [].
myFilter ==
  /\ filterPc = "start"
  /\ IF IsFunction(callbackFn)
       THEN filterPc' = "loop"
       ELSE filterPc' = "threw"
  /\ filterI' = 0
  /\ filterResult' = <<>>
  /\ UNCHANGED <<notFilter, filterThis, callbackFn, filterOrig, filterVisits,
                 pushes>>

\* One iteration of the loop, lines 22-32, for an index the array does not
\* have: nothing but i++.
filterSkip ==
  /\ filterPc = "loop"
  /\ filterI < Len(filterThis)
  /\ ~Has(filterThis, filterI)
  /\ filterI' = filterI + 1
  /\ UNCHANGED <<notFilter, filterThis, callbackFn, filterPc, filterResult,
                 filterOrig, filterVisits, pushes>>

\* One iteration of the loop, lines 22-32, for an index the array has:
\* callbackFn.call(thisArg, value, i, this), which returns truthy or falsy;
\* calling what is not a function raises.
filterVisit ==
  /\ filterPc = "loop"
  /\ filterI < Len(filterThis)
  /\ Has(filterThis, filterI)
  /\ IF callbackFn = "notFunction"
       THEN /\ filterPc' = "threw"
            /\ UNCHANGED <<filterThis, filterI, filterResult, filterVisits,
                           pushes>>
       ELSE /\ \E truthy \in BOOLEAN :
                 /\ filterVisits' =
                      Append(filterVisits,
                             [value |-> Get(filterThis, filterI),
                              index |-> filterI,
                              truthy |-> truthy])
                 /\ filterResult' =
                      IF truthy
                        THEN Append(filterResult, Get(filterThis, filterI))
                        ELSE filterResult
            /\ \/ UNCHANGED <<filterThis, pushes>>
               \/ /\ callbackFn = "pushing"
                  /\ pushes < MaxPushes
                  /\ \E e \in Elements : filterThis' = Append(filterThis, e)
                  /\ pushes' = pushes + 1
            /\ filterI' = filterI + 1
            /\ UNCHANGED filterPc
  /\ UNCHANGED <<notFilter, callbackFn, filterOrig>>

\* The loop condition i < this.length fails, line 22; return result, line 34.
filterReturn ==
  /\ filterPc = "loop"
  /\ filterI >= Len(filterThis)
  /\ filterPc' = "returned"
  /\ UNCHANGED <<notFilter, filterThis, callbackFn, filterI, filterResult,
                 filterOrig, filterVisits, pushes>>

NextFilter ==
  \/ myFilter
  \/ filterSkip
  \/ filterVisit
  \/ filterReturn

\* Every array and every kind of callback, before the call.
InitFilter ==
  /\ func = "reliable"
  /\ wait = 0
  /\ immediate = FALSE
  /\ DebounceIdle
  /\ HookIdle
  /\ syncEffects = TRUE
  /\ filterThis \in Arrays(MaxLen)
  /\ filterOrig = filterThis
  /\ callbackFn \in CallbackKinds
  /\ filterPc = "start"
  /\ filterI = 0
  /\ filterResult = <<>>
  /\ filterVisits = <<>>
  /\ pushes = 0
  /\ AtIdle
  /\ ConcatIdle
  /\ CallIdle

SpecFilter == InitFilter /\ [][NextFilter]_vars

\* ------------------------------------------------------ C15
\* C15: when myFilter has returned and the callback did not modify the
\* array, the callback was invoked exactly once for each index the array
\* has, in ascending order, with the element and the index, and never for a
\* hole; the result holds exactly the elements whose invocation returned
\* truthy, in that order; the array is as it was.
FilterResult ==
  (filterPc = "returned" /\ callbackFn = "pure") =>
    /\ [k \in DOMAIN filterVisits |-> filterVisits[k].index]
         = PresentIndices(filterOrig)
    /\ \A k \in DOMAIN filterVisits :
         filterVisits[k].value = filterOrig[filterVisits[k].index + 1]
    /\ LET kept == SelectSeq(filterVisits, LAMBDA v : v.truthy)
       IN  filterResult = [k \in DOMAIN kept |-> kept[k].value]
    /\ filterThis = filterOrig

\* myFilter has returned for a sparse array, with elements kept and dropped.
FilterResultWitness ==
  /\ filterPc = "returned"
  /\ callbackFn = "pure"
  /\ \E k \in DOMAIN filterOrig : filterOrig[k] = Hole
  /\ filterResult # <<>>
  /\ Len(filterResult) < Len(filterVisits)

\* ------------------------------------------------------ C16
\* C16: when callbackFn is not a function, myFilter throws before it has
\* visited any element, whatever the array, the empty one included.
FilterValidation ==
  (callbackFn = "notFunction" /\ filterPc # "start") =>
    /\ filterPc = "threw"
    /\ filterI = 0
    /\ filterVisits = <<>>

\* myFilter has thrown for the empty array.
FilterValidationWitness ==
  /\ callbackFn = "notFunction"
  /\ filterPc = "threw"
  /\ filterOrig = <<>>


\* ====================================================================
\* myAt, src/javascript/filter/understanding-filter.md lines 870-891: one
\* call arr.myAt(index). The argument is a number with or without a
\* fraction, written in halves.
\* ====================================================================
MaxIndex == 5

Indices == (0 - 2 * MaxIndex) .. (2 * MaxIndex)

\* Math.trunc(Number(index)) of h halves: towards zero.
Trunc(h) == IF h >= 0 THEN h \div 2 ELSE 0 - ((0 - h) \div 2)

RelativeIndex_Plain(i, len) == i

\* const relativeIndex = i < 0 ? len + i : i
RelativeIndex(i, len) == IF i < 0 THEN len + i ELSE i

\* The whole of myAt for a receiver that is not null.
At(arr, h) ==
  LET len == Len(arr)
      relativeIndex == RelativeIndex(Trunc(h), len)
  IN  IF relativeIndex < 0 \/ relativeIndex >= len
        THEN Undefined
        ELSE Get(arr, relativeIndex)

myAt ==
  /\ atPc = "start"
  /\ atResult' = At(atThis, atIndex)
  /\ atPc' = "returned"
  /\ UNCHANGED <<notAt, atThis, atIndex, atAltPc, atAltResult>>

\* The alternate version, lines 381-388 of the same file: no coercion of
\* the index, a bounds check on both sides, then this[(index + len) % len].
\* The remainder of JavaScript has the sign of the dividend.
Rem(a, n) == IF a >= 0 THEN a % n ELSE 0 - ((0 - a) % n)

OutOfBounds_Upper(h, len) == h >= 2 * len

\* index < -len || index >= len, the index in halves
OutOfBounds(h, len) == h < 0 - 2 * len \/ h >= 2 * len

\* An index with a fraction names no element: this[1.5] is undefined; so
\* does this[NaN], which x % 0 gives.
AtAlt(arr, h) ==
  LET len == Len(arr)
  IN  IF OutOfBounds(h, len) \/ len = 0 \/ h % 2 # 0
        THEN Undefined
        ELSE Get(arr, Rem(Trunc(h) + len, len))

myAtAlt ==
  /\ atAltPc = "start"
  /\ atAltResult' = AtAlt(atThis, atIndex)
  /\ atAltPc' = "returned"
  /\ UNCHANGED <<notAt, atThis, atIndex, atPc, atResult>>

NextAt == myAt \/ myAtAlt

InitAt ==
  /\ OthersIdle
  /\ atThis \in Arrays(MaxLen)
  /\ atIndex \in Indices
  /\ atPc = "start"
  /\ atResult = "none"
  /\ atAltPc = "start"
  /\ atAltResult = "none"
  /\ ConcatIdle
  /\ CallIdle

SpecAt == InitAt /\ [][NextAt]_vars

\* ------------------------------------------------------ C17
\* C17: for an integer index i and a receiver of length len, myAt returns
\* the element at i when 0 <= i < len, the element at len + i when
\* -len <= i < 0, and undefined otherwise; the element at an index the
\* array does not have is undefined.
AtIndexing ==
  (atPc = "returned" /\ atIndex % 2 = 0) =>
    LET len == Len(atThis)
        i == IF atIndex >= 0 THEN atIndex \div 2 ELSE 0 - ((0 - atIndex) \div 2)
        elem(k) == IF atThis[k + 1] = Hole THEN Undefined ELSE atThis[k + 1]
    IN  atResult = IF 0 <= i /\ i < len THEN elem(i)
                   ELSE IF 0 - len <= i /\ i < 0 THEN elem(len + i)
                   ELSE Undefined

\* myAt has returned an element for a negative index.
AtIndexingWitness ==
  /\ atPc = "returned"
  /\ atIndex % 2 = 0
  /\ atIndex < 0
  /\ atResult \in Elements


\* ====================================================================
\* src/javascript/concat/concat.js: one call arr.myConcat(...args). An
\* argument is a value with its type, its Symbol.isConcatSpreadable flag
\* and, if it is an object or a function, its length and indexed items.
\* ====================================================================
MaxArgs == 2

ArgItems == {<<>>, <<"y">>, <<Hole, "x">>}

Value(type, spreadable, items) ==
  [type |-> type, spreadable |-> spreadable, items |-> items]

\* null, undefined, a number; arrays; plain array-like objects; array-like
\* objects and functions that carry Symbol.isConcatSpreadable = true.
ArgValues ==
  {Value(t, FALSE, <<>>) : t \in {"null", "undefined", "number"}}
    \cup {Value("array", FALSE, it) : it \in ArgItems}
    \cup {Value("object", sp, it) : sp \in BOOLEAN, it \in ArgItems}
    \cup {Value("function", TRUE, it) : it \in ArgItems}

\* typeof arg
Typeof(arg) ==
  CASE arg.type \in {"null", "array", "object"} -> "object"
    [] OTHER -> arg.type

\* What an array holds when an argument is stored in it as one element:
\* null, undefined, the number, or the k-th argument object itself.
Refs == <<"@1", "@2", "@3", "@4">>

Item(arg, k) ==
  CASE arg.type = "null" -> "null"
    [] arg.type = "undefined" -> Undefined
    [] arg.type = "number" -> "number"
    [] OTHER -> Refs[k]

IsSpreadable_All(arg) == arg.type \notin {"null", "undefined", "number"}

\* Lines 23-25: arg != null && typeof arg === 'object' &&
\* (arg[Symbol.isConcatSpreadable] === true || Array.isArray(arg))
IsSpreadable(arg) ==
  /\ arg.type \notin {"null", "undefined"}
  /\ Typeof(arg) = "object"
  /\ (arg.spreadable \/ arg.type = "array")

\* addToResult, lines 5-7: result[resultIndex++] = item, resultIndex being
\* the length of result.
AddToResult(result, item) == Append(result, item)

\* copyItems, lines 9-16: result[resultIndex++] = source[i] for every
\* i < source.length; reading an index the source does not have gives
\* undefined, and the assignment makes the index of result present.
CopyItems(result, source) ==
  result \o [k \in 1 .. Len(source) |-> Get(source, k - 1)]

\* The loop over the arguments from the k-th on, lines 22-32.
RECURSIVE ConcatFrom(_, _, _)
ConcatFrom(result, args, k) ==
  IF k > Len(args)
    THEN result
    ELSE ConcatFrom(IF IsSpreadable(args[k])
                      THEN CopyItems(result, args[k].items)
                      ELSE AddToResult(result, Item(args[k], k)),
                    args, k + 1)

MyConcat(this, args) == ConcatFrom(CopyItems(<<>>, this), args, 1)

myConcat ==
  /\ concatPc = "start"
  /\ concatResult' = MyConcat(concatThis, concatArgs)
  /\ concatPc' = "returned"
  /\ UNCHANGED <<notConcat, concatThis, concatArgs>>

NextConcat == myConcat

InitConcat ==
  /\ OthersIdle
  /\ AtIdle
  /\ concatThis \in Arrays(MaxLen)
  /\ concatArgs \in SeqsUpTo(ArgValues, MaxArgs)
  /\ concatPc = "start"
  /\ concatResult = <<>>
  /\ CallIdle

SpecConcat == InitConcat /\ [][NextConcat]_vars

\* What the result of concat is to be, index by index: the source's items
\* where the source is spread, holes included, the argument otherwise.
Spread(arg) == arg.type = "array" \/ arg.spreadable

RECURSIVE Expected(_, _, _)
Expected(this, args, k) ==
  IF k = 0
    THEN this
    ELSE Expected(this, args, k - 1)
           \o (IF Spread(args[k]) THEN args[k].items ELSE <<Item(args[k], k)>>)

\* Reading an index: undefined where the array has none.
Read(arr) == [k \in DOMAIN arr |-> IF arr[k] = Hole THEN Undefined ELSE arr[k]]

\* ------------------------------------------------------ C18
\* C18: the array myConcat returns reads as the receiver's elements followed,
\* in argument order, by the elements of each argument that is an array or
\* has Symbol.isConcatSpreadable === true, and by the argument itself
\* otherwise; its length is the receiver's length plus, per argument, the
\* argument's length if it is spread and 1 if not.
ConcatResult ==
  concatPc = "returned" =>
    LET expected == Expected(concatThis, concatArgs, Len(concatArgs))
    IN  /\ Len(concatResult) = Len(expected)
        /\ Read(concatResult) = Read(expected)

\* ------------------------------------------------------ C19
\* C19: every index of the result that corresponds to a hole of the receiver
\* or of a spread argument is a hole of the result.
ConcatPreservesHoles ==
  concatPc = "returned" =>
    LET expected == Expected(concatThis, concatArgs, Len(concatArgs))
    IN  \A k \in DOMAIN expected \cap DOMAIN concatResult :
          expected[k] = Hole => concatResult[k] = Hole


\* ====================================================================
\* src/javascript/call/call.js (myCall) and src/unnamed/part_000 (myApply):
\* one call f.myCall(thisArg, ...argArray) or f.myApply(thisArg, argsArr).
\* ====================================================================
\* The receiver: a function whose body returns a value or throws, or
\* something that is not a function.
Callees ==
  {[type |-> t, body |-> "returns", value |-> v] :
     t \in {"function", "object"}, v \in {"r", Undefined}}
    \cup {[type |-> "function", body |-> "throws", value |-> Undefined]}

\* thisArg: null, undefined, a primitive, or an object, which may be
\* non-extensible (Object.freeze, Object.seal, Object.preventExtensions).
ThisArgs ==
  {[type |-> t, extensible |-> FALSE] : t \in {"null", "undefined", "number"}}
    \cup {[type |-> "object", extensible |-> e] : e \in BOOLEAN}

\* myCall: the rest arguments are an array without holes.
RestArgs == {[type |-> "array", items |-> it] : it \in SeqsUpTo(Elements, MaxArgs)}

\* myApply: argsArr is absent, null, a falsy or truthy primitive, an array,
\* an object with length and indexed items, or an object without length.
ApplyArgs ==
  {[type |-> t, items |-> <<>>] :
     t \in {"undefined", "null", "zero", "number", "object"}}
    \cup {[type |-> t, items |-> it] :
            t \in {"array", "arrayLike"}, it \in Arrays(MaxArgs)}

\* The object the function is installed on, line 14 of either file:
\* Object(thisArg), or globalThis for null and undefined.
Target(ta) ==
  CASE ta.type \in {"null", "undefined"} ->
         [is |-> "globalThis", extensible |-> TRUE]
    [] ta.type = "object" -> [is |-> "thisArg", extensible |-> ta.extensible]
    [] OTHER -> [is |-> "boxed", extensible |-> TRUE]

\* thisArg[funcSym] = this: a non-extensible object does not take the new
\* property, and thisArg[funcSym] stays undefined.
Installed(target) == target.extensible

\* !argsArr
Falsy(a) == a.type \in {"undefined", "null", "zero"}

\* typeof argsArr !== 'object' || typeof argsArr.length !== 'number'
NotArrayLike(a) == a.type \notin {"array", "arrayLike"}

\* ...argsArr: an array spreads to its elements, a hole to undefined; an
\* object that is not iterable cannot be spread.
Iterable(a) == a.type = "array"

Spreads(a) == [k \in DOMAIN a.items |-> Get(a.items, k - 1)]

\* thisArg[funcSym](...args) and what follows it: a call of undefined
\* raises; the function runs with this = the target, and the property is
\* deleted only after it has returned.
Invoke(target, args) ==
  IF ~Installed(target)
    THEN /\ callPc' = "threw"
         /\ UNCHANGED <<callResult, targetKeys, invocations>>
    ELSE /\ invocations' = Append(invocations, [this |-> target.is, args |-> args])
         /\ IF callee.body = "returns"
              THEN /\ callPc' = "returned"
                   /\ callResult' = callee.value
                   /\ targetKeys' = targetKeys
              ELSE /\ callPc' = "threw"
                   /\ targetKeys' = targetKeys \cup {"funcSym"}
                   /\ UNCHANGED callResult

\* The property stays on the target when myApply throws at line 33.
Abandon(target) ==
  /\ callPc' = "threw"
  /\ targetKeys' =
       IF Installed(target) THEN targetKeys \cup {"funcSym"} ELSE targetKeys
  /\ UNCHANGED <<callResult, invocations>>

myCall ==
  /\ callPc = "start"
  /\ method = "myCall"
  /\ IF callee.type # "function"
       THEN /\ callPc' = "threw"
            /\ UNCHANGED <<callResult, targetKeys, invocations>>
       ELSE Invoke(Target(thisArg), argsArr.items)
  /\ UNCHANGED <<notCall, method, callee, thisArg, argsArr>>

myApply ==
  /\ callPc = "start"
  /\ method = "myApply"
  /\ IF callee.type # "function"
       THEN /\ callPc' = "threw"
            /\ UNCHANGED <<callResult, targetKeys, invocations>>
       ELSE IF Falsy(argsArr)
         THEN Invoke(Target(thisArg), <<>>)
         ELSE IF NotArrayLike(argsArr) \/ ~Iterable(argsArr)
           THEN Abandon(Target(thisArg))
           ELSE Invoke(Target(thisArg), Spreads(argsArr))
  /\ UNCHANGED <<notCall, method, callee, thisArg, argsArr>>

NextCall ==
  \/ myCall
  \/ myApply

InitCall ==
  /\ OthersIdle
  /\ AtIdle
  /\ ConcatIdle
  /\ method \in {"myCall", "myApply"}
  /\ callee \in Callees
  /\ thisArg \in ThisArgs
  /\ argsArr \in IF method = "myCall" THEN RestArgs ELSE ApplyArgs
  /\ callPc = "start"
  /\ callResult = "none"
  /\ targetKeys = {"name"}
  /\ invocations = <<>>

SpecCall == InitCall /\ [][NextCall]_vars

\* ------------------------------------------------------ C20
\* C20: f.myCall(thisArg, a1..an) and f.myApply(thisArg, [a1..an]) invoke f
\* exactly once, with arguments a1..an and with this the thisArg object, the
\* boxed primitive, or the global object for null and undefined, and return
\* what f returned; myApply without argsArr invokes f with no arguments.
CallBinding ==
  (/\ callPc # "start"
   /\ callee.type = "function"
   /\ argsArr.type \in {"array", "undefined"}
   /\ \A k \in DOMAIN argsArr.items : argsArr.items[k] # Hole) =>
    /\ invocations =
         << [this |-> CASE thisArg.type = "object" -> "thisArg"
                        [] thisArg.type = "number" -> "boxed"
                        [] OTHER -> "globalThis",
             args |-> argsArr.items] >>
    /\ callee.body = "returns" =>
         (callPc = "returned" /\ callResult = callee.value)


\* ------------------------------------------------------ C21
\* C21: after myCall or myApply has completed, by a return or by a throw of
\* the function or of the argument validation, the thisArg object has the
\* own properties it had before the call.
CallCleanup ==
  (callPc # "start" /\ callee.type = "function" /\ thisArg.type = "object") =>
    targetKeys = {"name"}

\* ------------------------------------------------------ C22
\* C22: myApply throws, without invoking the function, when argsArr is
\* neither null nor undefined nor an array-like object: a number, a boolean
\* or a string, the falsy ones included, or an object without a length.
ApplyValidation ==
  (/\ callPc # "start"
   /\ method = "myApply"
   /\ callee.type = "function"
   /\ argsArr.type \in {"zero", "number", "object"}) =>
    /\ callPc = "threw"
    /\ invocations = <<>>

\* ------------------------------------------------------ C23
\* C23: for an object with a numeric length and indexed elements that is
\* not an array, myApply invokes the function once with the elements at
\* indices 0 .. length - 1 as its arguments, as it does for an array.
ApplyArrayLike ==
  (/\ callPc # "start"
   /\ method = "myApply"
   /\ callee.type = "function"
   /\ argsArr.type = "arrayLike"
   /\ Installed(Target(thisArg))) =>
    /\ Len(invocations) = 1
    /\ invocations[1].args = Read(argsArr.items)


\* ------------------------------------------------------ C24
\* C24: with immediate = true and a callable target, a wrapper invocation
\* executes the target, inside
\* the invocation, exactly when no timer was scheduled as the invocation
\* began; and every invocation, executing or not, leaves exactly one timer
\* scheduled, a full delay ahead.
LeadingDecision ==
  [][ (immediate /\ func # "notCallable" /\ Len(calls') = Len(calls) + 1) =>
        /\ (timers = {}) <=>
             /\ Len(execs') = Len(execs) + 1
             /\ execs'[Len(execs')].via = "leading"
        /\ (timers # {}) => execs' = execs
        /\ timers' = {[id |-> calls'[Len(calls')].id, due |-> now + Delay(wait)]}
    ]_vars


\* ------------------------------------------------------ C29
\* C29: the executions of the target are at most as many as the wrapper
\* invocations, and each execution receives the arguments of an invocation
\* of its own.
ExecutionsBounded ==
  /\ Len(execs) <= Len(calls)
  /\ \A i \in 1 .. Len(execs) :
       /\ \E k \in 1 .. Len(calls) : execs[i].args = calls[k].args
       /\ \A j \in 1 .. Len(execs) : execs[i].args = execs[j].args => i = j


\* ====================================================================
\* The debounce controller in trailing mode with a host that keeps its
\* promise: time passes while a timer waits, and a timer that is due is
\* eventually run.
\* ====================================================================
\* Time passes while a scheduled timer is not yet due.
elapse ==
  /\ \E tm \in timers : tm.due > now
  /\ now' = now + 1
  /\ UNCHANGED <<notDebounce, config, wrapper, timeoutId, lastArgs, lastThis,
                 timers, nextId, calls, calledAt, fate, execs>>

NextLive == Next \/ elapse

\* Trailing mode, a callable target that returns or raises (a target that
\* is not callable raises every time, as a faulty one may), and a delay
\* that setTimeout does not have to clamp.
InitLive == Init /\ ~immediate /\ func # "notCallable" /\ wait >= 0

SpecLive ==
  /\ InitLive
  /\ [][NextLive]_vars
  /\ WF_vars(elapse)
  /\ WF_vars(\E id \in 1 .. MaxCalls : timerCallback(id))

\* The target has been executed, or cancel() has withdrawn a scheduled
\* timer, since the k-th invocation of the wrapper.
Served(k) ==
  \/ \E i \in 1 .. Len(execs) : execs[i].ncalls >= k
  \/ \E j \in k .. Len(fate) : fate[j] = "cancelled"

\* ------------------------------------------------------ C25
\* C25: with immediate = false and a host that eventually runs every timer
\* that stays scheduled, every wrapper invocation is eventually followed by
\* an execution of the target or by a cancel(); the controller does not
\* stay for ever with a timer scheduled.
TrailingLiveness ==
  /\ \A k \in 1 .. MaxCalls : (Len(calls) >= k) ~> Served(k)
  /\ []<>(timers = {})

\* The last invocation came when the clock had reached MaxTime, with a
\* positive delay, and its timer has run the target all the same.
TrailingLivenessWitness ==
  /\ ~immediate /\ wait = MaxWait /\ MaxWait > 0
  /\ Len(calls) > 0 /\ calledAt = MaxTime
  /\ fate[Len(calls)] = "fired"
  /\ execs # <<>> /\ execs[Len(execs)].via = "trailing"
  /\ execs[Len(execs)].ncalls = Len(calls)


\* ====================================================================
\* The hook with React and the host keeping their promises: the effect of a
\* committed render is run, time passes while a timer waits, and a timer
\* that is due is eventually run.
\* ====================================================================
hookElapse ==
  /\ \E tm \in hookTimers : tm.due > hookNow
  /\ hookNow' = hookNow + 1
  /\ UNCHANGED <<notHook, hookPhase, value, delay, deps, debouncedValue,
                 timeoutRef, hookTimers, hookNextId, syncEffects, renders,
                 hookFate, lateSets>>

NextHookLive == NextHook \/ hookElapse

SpecHookLive ==
  /\ InitHook
  /\ [][NextHookLive]_vars
  /\ WF_vars(effect)
  /\ WF_vars(hookElapse)
  /\ WF_vars(\E id \in 1 .. MaxRenders : timeoutCallback(id))

\* ------------------------------------------------------ C26
\* C26: if the component stays mounted, the value useDebounce returns
\* eventually equals the latest value and stays equal to it; and while no
\* timer of the hook has fired, the returned value is the one the first
\* render set.
HookConvergence ==
  /\ <>[](hookPhase = "mounted") => <>[](debouncedValue = value)
  /\ [][ (/\ hookPhase = "mounted"
          /\ \A k \in DOMAIN hookFate' : hookFate'[k] # "fired") =>
           debouncedValue' = debouncedValue ]_vars

\* After a value that was replaced before its timer could run, the
\* returned value has become the latest one, which is not the first.
HookConvergenceWitness ==
  /\ hookPhase = "mounted"
  /\ renders = MaxRenders
  /\ \E k \in DOMAIN hookFate : hookFate[k] = "cleared"
  /\ hookFate[Len(hookFate)] = "fired"
  /\ debouncedValue = value
  /\ hookTimers = {}


\* ------------------------------------------------------ C27
\* C27: when the callback appends to the array, myFilter still invokes it
\* only for indices below the length the array had at the call, at most
\* that many times, and returns what Array.prototype.filter returns: the
\* kept elements of those indices.
FilterVisitsBounded ==
  (filterPc = "returned" /\ callbackFn = "pushing") =>
    /\ Len(filterVisits) <= Len(filterOrig)
    /\ \A k \in DOMAIN filterVisits : filterVisits[k].index < Len(filterOrig)
    /\ LET kept == SelectSeq(filterVisits,
                             LAMBDA v : v.truthy /\ v.index < Len(filterOrig))
       IN  filterResult = [k \in DOMAIN kept |-> kept[k].value]


\* ------------------------------------------------------ C28
\* The integer index of the call, and whether it lies below -length.
AtInteger == atIndex % 2 = 0

BelowRange == AtInteger /\ Trunc(atIndex) < 0 - Len(atThis)

InnerTimers(ts, tid, id) == SetTimeout(ReleasePrevious(ts, tid), id, wait, now)

InnerCall(n, id, ts) ==
  [args |-> ArgsOf(n), this |-> ThisOf(n), id |-> id, pending |-> (ts # {})]

InnerFate(f, ts) == Append(Mark(f, ts, "reset"), "pending")

\* Lines 11-32 with callNow true and the target calling the wrapper from
\* inside line 29; line 30 runs after the inner invocation has returned.
leadingReentry ==
  /\ wrapper = "returned"
  /\ Len(calls) + 2 <= MaxCalls
  /\ CallNow(immediate, timeoutId)
  /\ LET n == Len(calls) + 1
         id == nextId
         ts1 == SetTimeout(ReleasePrevious(timers, timeoutId), id, wait, now)
     IN  /\ ~CallNow(immediate, id)
         /\ execs' = Append(execs, [Exec(ArgsOf(n), ThisOf(n), "leading", n, id, "ok")
                                      EXCEPT !.waited = 0])
         /\ timers' = InnerTimers(ts1, id, id + 1)
         /\ timeoutId' = id + 1
         /\ nextId' = id + 2
         /\ calls' = calls \o <<InnerCall(n, id, timers), InnerCall(n + 1, id + 1, ts1)>>
         /\ fate' = InnerFate(InnerFate(fate, timers), ts1)
         /\ calledAt' = now
         /\ lastArgs' = Null
         /\ lastThis' = Null
  /\ UNCHANGED <<notDebounce, config, wrapper, now>>

\* Lines 19-26 with the target calling the wrapper from inside line 23;
\* line 24 runs after the inner invocation has returned.
trailingReentry(id) ==
  /\ wrapper = "returned"
  /\ Len(calls) < MaxCalls
  /\ \E tm \in timers : tm.id = id /\ tm.due <= now
  /\ FiresTrailing(immediate)
  /\ LET ts1 == ClearTimeout(timers, id)
     IN  /\ ~CallNow(immediate, NoTimer)
         /\ execs' = Append(execs, Exec(lastArgs, lastThis, "trailing", Len(calls), id, "ok"))
         /\ timers' = InnerTimers(ts1, NoTimer, nextId)
         /\ timeoutId' = nextId
         /\ nextId' = nextId + 1
         /\ calls' = Append(calls, InnerCall(Len(calls) + 1, nextId, ts1))
         /\ fate' = InnerFate(Fired(fate, id), ts1)
         /\ calledAt' = now
         /\ lastArgs' = Null
         /\ lastThis' = Null
  /\ UNCHANGED <<notDebounce, config, wrapper, now>>

\* Lines 40-47 with the target calling the wrapper from inside line 43;
\* lines 44-45 run after the inner invocation has returned.
flushReentry ==
  /\ wrapper = "returned"
  /\ Len(calls) < MaxCalls
  /\ FlushGuard(timeoutId)
  /\ Flushes < MaxFlushes
  /\ LET ts1 == FlushTimer(timers, timeoutId)
     IN  /\ ~CallNow(immediate, timeoutId)
         /\ execs' = Append(execs, Exec(lastArgs, lastThis, "flush", Len(calls), timeoutId, "ok"))
         /\ timers' = InnerTimers(ts1, timeoutId, nextId)
         /\ nextId' = nextId + 1
         /\ calls' = Append(calls, InnerCall(Len(calls) + 1, nextId, ts1))
         /\ fate' = InnerFate(Mark(fate, timers, "flushed"), ts1)
         /\ calledAt' = now
         /\ timeoutId' = NoTimer
         /\ lastArgs' = Null
         /\ lastThis' = Null
  /\ UNCHANGED <<notDebounce, config, wrapper, now>>

NextReentrant ==
  \/ Next
  \/ leadingReentry
  \/ \E id \in 1 .. MaxCalls : trailingReentry(id)
  \/ flushReentry

InitReentrant ==
  /\ func = "reentrant"
  /\ wait \in Waits
  /\ immediate \in BOOLEAN
  /\ DebounceIdle
  /\ HookIdle
  /\ syncEffects = TRUE
  /\ FilterIdle
  /\ AtIdle
  /\ ConcatIdle
  /\ CallIdle

SpecReentrant == InitReentrant /\ [][NextReentrant]_vars

\* ------------------------------------------------------ C30
\* C30: after an execution of the target during which the target called the
\* wrapper, the one scheduled timer is the one that call created, timeoutId
\* is its handle, and lastArgs and lastThis are that call's.
ReentrantSafe ==
  [][ (leadingReentry \/ flushReentry
         \/ \E id \in 1 .. MaxCalls : trailingReentry(id)) =>
        LET inner == calls'[Len(calls')]
        IN  /\ timers' = {[id |-> inner.id, due |-> now + Delay(wait)]}
            /\ timeoutId' = inner.id
            /\ lastArgs' = inner.args
            /\ lastThis' = inner.this ]_vars

====
